---- MODULE Spec2Model ----
(***************************************************************************)
(* A model of qutebrowser/completion/models/sqlmodel.py: the sql-backed    *)
(* completion model (SqlCompletionModel) and its categories                *)
(* (_SqlCompletionCategory).                                               *)
(*                                                                         *)
(* Strings are sequences of one-character strings.  A QModelIndex is a     *)
(* record [valid, row, col, ptr]: ptr is the internalPointer, 0 for None   *)
(* and otherwise the identity of a category object.  Rows and columns of   *)
(* an index are 0-based as in the code; positions in TLA+ sequences are    *)
(* 1-based.                                                                *)
(***************************************************************************)
EXTENDS Integers, Sequences, FiniteSets, TLC

VARIABLES
    columns_to_filter,  \* SqlCompletionModel.columns_to_filter
    categories,         \* SqlCompletionModel._categories
    pattern,            \* SqlCompletionModel.pattern (the raw pattern)
    last                \* the last call made on the model and how it ended

vars == <<columns_to_filter, categories, pattern, last>>

(***************************************************************************)
(* Bounds of the model.                                                    *)
(***************************************************************************)
MaxCats == 2        \* categories added to one model under Spec
MaxBroadcast == 3   \* categories added to one model under SpecBroadcast
MaxPatLen == 4      \* length of the raw patterns of SpecCompile
FetchChunk == 1     \* rows QSqlQueryModel looks ahead per fetch (Qt: 255)

(***************************************************************************)
(* Strings.                                                                *)
(***************************************************************************)
Alphabet == {"%", "_", "\\", " ", "\t", "a"}

BoundedStrings(n) == UNION {[1..k -> Alphabet] : k \in 0..n}

\* The examples of the documentation: "foo bar" and "50% off".
FooBar == <<"f", "o", "o", " ", "b", "a", "r">>
FiftyOff == <<"5", "0", "%", " ", "o", "f", "f">>

\* str.replace(old, new) for a one-character old.
RECURSIVE replace(_, _, _)
replace(s, old, new) ==
    IF s = <<>> THEN <<>>
    ELSE (IF Head(s) = old THEN new ELSE <<Head(s)>>)
             \o replace(Tail(s), old, new)

\* The rest of s after the spaces it starts with.
RECURSIVE SkipSpaces(_)
SkipSpaces(s) ==
    IF s # <<>> /\ Head(s) = " " THEN SkipSpaces(Tail(s)) ELSE s

\* re.sub(r' +', '%', s): leftmost, greedy, non-overlapping matches.
RECURSIVE re_sub_spaces(_)
re_sub_spaces(s) ==
    IF s = <<>> THEN <<>>
    ELSE IF Head(s) = " " THEN <<"%">> \o re_sub_spaces(SkipSpaces(s))
    ELSE <<Head(s)>> \o re_sub_spaces(Tail(s))

\* A slip in the regular expression: r' ' instead of r' +'.
CompilePattern_EachSpace(p) ==
    <<"%">> \o replace(replace(replace(p, "%", <<"\\", "%">>),
                               "_", <<"\\", "_">>), " ", <<"%">>) \o <<"%">>

\* set_pattern, lines 245-249: what the raw pattern is turned into.
CompilePattern(p) ==
    <<"%">> \o re_sub_spaces(replace(replace(p, "%", <<"\\", "%">>),
                                     "_", <<"\\", "_">>)) \o <<"%">>

(***************************************************************************)
(* The database: LIKE with ESCAPE '\', and the tables.                     *)
(***************************************************************************)
\* How LIKE ... ESCAPE '\' reads a pattern: the escape character makes the
\* character after it a literal; an unescaped % or _ is a wildcard.  An
\* escape character that ends the pattern escapes nothing ("dangling").
RECURSIVE LikeTokens(_)
LikeTokens(p) ==
    IF p = <<>> THEN <<>>
    ELSE IF Head(p) = "\\"
         THEN IF Len(p) = 1 THEN << [kind |-> "dangling", ch |-> "\\"] >>
              ELSE << [kind |-> "lit", ch |-> p[2]] >>
                       \o LikeTokens(Tail(Tail(p)))
    ELSE IF Head(p) = "%"
         THEN << [kind |-> "any", ch |-> "%"] >> \o LikeTokens(Tail(p))
    ELSE IF Head(p) = "_"
         THEN << [kind |-> "one", ch |-> "_"] >> \o LikeTokens(Tail(p))
    ELSE << [kind |-> "lit", ch |-> Head(p)] >> \o LikeTokens(Tail(p))

RECURSIVE MatchTokens(_, _)
MatchTokens(t, s) ==
    IF t = <<>> THEN s = <<>>
    ELSE CASE Head(t).kind = "any" ->
                \E k \in 0..Len(s) :
                    MatchTokens(Tail(t), SubSeq(s, k + 1, Len(s)))
           [] Head(t).kind = "one" ->
                s # <<>> /\ MatchTokens(Tail(t), Tail(s))
           [] Head(t).kind = "lit" ->
                s # <<>> /\ Head(s) = Head(t).ch
                    /\ MatchTokens(Tail(t), Tail(s))
           [] OTHER -> FALSE

\* value LIKE p ESCAPE '\'
Like(value, p) == MatchTokens(LikeTokens(p), value)

\* The tables of the database, populated before a category is attached.
\* Columns 0 and 1 are url and title; starred and recent are the columns the
\* static predicates read, atime the column the categories sort by.
Row(u, t, s, r, a) ==
    [url |-> u, title |-> t, starred |-> s, recent |-> r, atime |-> a]

Tables ==
    [ History |-> << Row(<<"a", "%">>, <<"b">>, TRUE, FALSE, 2),
                     Row(<<"b">>, <<"a", " ", "a">>, FALSE, TRUE, 3),
                     Row(<<"_">>, <<"b">>, TRUE, TRUE, 1) >>,
      Empty |-> << >> ]

FieldNames == <<"url", "title">>

\* A token of a WHERE expression: the parenthesised group of LIKEs, a boolean
\* column, or one of the connectives.
Likes(fields) == [kind |-> "likes", arg |-> fields]
Col(name) == [kind |-> "col", arg |-> <<name>>]
And == [kind |-> "and", arg |-> <<>>]
Or == [kind |-> "or", arg |-> <<>>]

EvalAtom(tok, row, p) ==
    IF tok.kind = "likes"
    THEN \E i \in 1..Len(tok.arg) : Like(row[tok.arg[i]], p)
    ELSE row[tok.arg[1]]

\* SQL's precedence: AND binds tighter than OR.
EvalAnd(toks, row, p) ==
    \A i \in 1..Len(toks) : toks[i].kind = "and" \/ EvalAtom(toks[i], row, p)

RECURSIVE EvalOr(_, _, _)
EvalOr(toks, row, p) ==
    IF \E i \in 1..Len(toks) : toks[i].kind = "or"
    THEN LET i == CHOOSE i \in 1..Len(toks) :
                      /\ toks[i].kind = "or"
                      /\ \A j \in 1..(i - 1) : toks[j].kind # "or"
         IN  \/ EvalAnd(SubSeq(toks, 1, i - 1), row, p)
             \/ EvalOr(SubSeq(toks, i + 1, Len(toks)), row, p)
    ELSE EvalAnd(toks, row, p)

RECURSIVE Filter(_, _, _)
Filter(rows, toks, p) ==
    IF rows = <<>> THEN <<>>
    ELSE (IF EvalOr(toks, Head(rows), p) THEN <<Head(rows)>> ELSE <<>>)
             \o Filter(Tail(rows), toks, p)

\* ORDER BY atime asc|desc (the atimes of a table are distinct).
OrderBy(rows, order) ==
    LET n == Len(rows)
        rank(r) == Cardinality({i \in 1..n : rows[i].atime < r.atime})
        asc == [k \in 1..n |-> CHOOSE r \in {rows[i] : i \in 1..n} :
                                   rank(r) = k - 1]
    IN  IF order = "asc" THEN asc
        ELSE IF order = "desc" THEN [k \in 1..n |-> asc[n + 1 - k]]
        ELSE rows

\* LIMIT n; a statement without the clause has limit 0 here.
Limit(rows, n) ==
    IF n > 0 /\ Len(rows) > n THEN SubSeq(rows, 1, n) ELSE rows

(***************************************************************************)
(* _SqlCompletionCategory.                                                 *)
(***************************************************************************)
\* The limit argument None.
NoLimit == -1

\* __init__, lines 42-59: the statement, as its clauses.  `where` is the
\* caller's clause as tokens (<<>> for None), appended as it is after "and".
querystr(name, where, sort_by, sort_order, limit, fields) ==
    [ table |-> name,
      where |-> <<Likes(fields)>>
                  \o (IF where # <<>> THEN <<And>> \o where ELSE <<>>),
      order |-> IF sort_by # "" THEN sort_order ELSE "",
      limit |-> IF limit # NoLimit /\ limit # 0 THEN limit ELSE 0 ]

\* sql.run_query(self._querystr, [pattern for _ in self._fields]), when it
\* does not raise: the rows of the statement with every ? bound to p.
run_query(q, p) ==
    Limit(OrderBy(Filter(Tables[q.table], q.where, p), q.order), q.limit)

\* QSqlQueryModelPrivate::prefetch(limit) on a driver that does not report
\* the size of a query (sqlite): the rows up to `limit` are loaded, and the
\* end is known only once a seek fails.
prefetch(cat, limit) ==
    IF cat.atEnd \/ limit <= cat.bottom THEN cat
    ELSE IF Len(cat.result) > limit
         THEN [cat EXCEPT !.bottom = limit]
         ELSE [cat EXCEPT !.bottom = Len(cat.result) - 1, !.atEnd = TRUE]

Max(a, b) == IF a >= b THEN a ELSE b

\* QSqlQueryModel::rowCount(), canFetchMore(), fetchMore(), setQuery().
cat_rowCount(cat) == cat.bottom + 1
cat_canFetchMore(cat) == ~cat.atEnd
cat_fetchMore(cat) == prefetch(cat, Max(cat.bottom, 0) + FetchChunk)
setQuery(cat, p, rows) ==
    cat_fetchMore([cat EXCEPT !.pattern = p, !.result = rows,
                              !.bottom = -1, !.atEnd = FALSE])

\* _SqlCompletionCategory.set_pattern when run_query does not raise.
cat_set_pattern(cat, p) == setQuery(cat, p, run_query(cat.querystr, p))

\* _SqlCompletionCategory.__init__ up to line 59; `id` is the identity of the
\* new object.
new_cat(id, name, where, sort_by, sort_order, limit) ==
    LET fields == [i \in 1..Len(columns_to_filter) |->
                       FieldNames[columns_to_filter[i] + 1]]
    IN  [ id |-> id, tablename |-> name, fields |-> fields,
          querystr |-> querystr(name, where, sort_by, sort_order, limit, fields),
          pattern |-> <<>>, result |-> <<>>, bottom |-> -1, atEnd |-> TRUE ]

\* No category (None), and the IndexError of a list index out of range.
NoCat == new_cat(0, "", <<>>, "", "", NoLimit)
ErrCat == new_cat(-1, "", <<>>, "", "", NoLimit)

(***************************************************************************)
(* SqlCompletionModel: the tree protocol.                                  *)
(***************************************************************************)
\* QModelIndex() and createIndex(row, col, ptr).
Invalid == [valid |-> FALSE, row |-> -1, col |-> -1, ptr |-> 0]
createIndex(row, col, ptr) ==
    [valid |-> TRUE, row |-> row, col |-> col, ptr |-> ptr]

\* _cat_from_idx: the category an index points at, else None; items hold
\* their category in the internalPointer, categories hold None.
cat_from_idx(index) ==
    IF index.valid /\ index.ptr = 0
    THEN IF index.row + 1 >= 1 /\ index.row + 1 <= Len(categories)
         THEN categories[index.row + 1] ELSE ErrCat
    ELSE NoCat

columnCount(parent) == 3

\* A slip: the column of the category address is not looked at.
rowCount_AnyColumn(parent) ==
    IF ~parent.valid THEN Len(categories)
    ELSE LET cat == cat_from_idx(parent)
         IN  IF cat.id = 0 THEN 0 ELSE cat_rowCount(cat)

rowCount(parent) ==
    IF ~parent.valid THEN Len(categories)
    ELSE LET cat == cat_from_idx(parent)
         IN  IF cat.id = 0 \/ parent.col # 0 THEN 0 ELSE cat_rowCount(cat)

index(row, col, parent) ==
    IF row < 0 \/ row >= rowCount(parent) \/ col < 0 \/ col >= columnCount(parent)
    THEN Invalid
    ELSE IF parent.valid
         THEN IF parent.col # 0 THEN Invalid
              ELSE createIndex(row, col, categories[parent.row + 1].id)
         ELSE createIndex(row, col, 0)

\* list.index(x): the 0-based position of the first element equal to x.
ListIndex(id) ==
    (CHOOSE i \in 1..Len(categories) :
        /\ categories[i].id = id
        /\ \A j \in 1..(i - 1) : categories[j].id # id) - 1

\* A slip: the parent keeps the column of the item.
parent_KeepColumn(idx) ==
    IF idx.ptr = 0 THEN Invalid ELSE createIndex(ListIndex(idx.ptr), idx.col, 0)

parent(idx) ==
    IF idx.ptr = 0 THEN Invalid ELSE createIndex(ListIndex(idx.ptr), 0, 0)

canFetchMore(par) ==
    LET cat == cat_from_idx(par)
    IN  IF cat.id # 0 THEN cat_canFetchMore(cat) ELSE FALSE

\* A slip: the categories' own count of rows is replaced by the size of
\* their result sets.
count_Results == 
    LET RECURSIVE sum(_)
        sum(i) == IF i > Len(categories) THEN 0
                  ELSE Len(categories[i].result) + sum(i + 1)
    IN  sum(1)

count ==
    LET RECURSIVE sum(_)
        sum(i) == IF i > Len(categories) THEN 0
                  ELSE cat_rowCount(categories[i]) + sum(i + 1)
    IN  sum(1)

\* The loops of first_item and last_item over enumerate(self._categories);
\* qtutils.ensure_valid raises on an invalid index, which is returned here
\* as it is.
RECURSIVE first_item_from(_)
first_item_from(row) ==
    IF row >= Len(categories) THEN Invalid
    ELSE IF cat_rowCount(categories[row + 1]) > 0
         THEN index(0, 0, index(row, 0, Invalid))
         ELSE first_item_from(row + 1)

RECURSIVE last_item_from(_)
last_item_from(row) ==
    IF row < 0 THEN Invalid
    ELSE LET childcount == cat_rowCount(categories[row + 1])
         IN  IF childcount > 0
             THEN index(childcount - 1, 0, index(row, 0, Invalid))
             ELSE last_item_from(row - 1)

\* A slip: the scan goes forward, as in first_item.
last_item_Forward ==
    LET RECURSIVE scan(_)
        scan(row) ==
            IF row >= Len(categories) THEN Invalid
            ELSE LET childcount == cat_rowCount(categories[row + 1])
                 IN  IF childcount > 0
                     THEN index(childcount - 1, 0, index(row, 0, Invalid))
                     ELSE scan(row + 1)
    IN  scan(0)

first_item == first_item_from(0)
last_item == last_item_from(Len(categories) - 1)

(***************************************************************************)
(* The calls made on the model.                                            *)
(***************************************************************************)
\* What `last` records: the call, the exception it ended with ("none" when
\* it returned), its argument (set_pattern: the position of the category
\* whose query failed, 0 for none; fetchMore: 0, 1 or 2 for a root, category
\* or item parent), whether canFetchMore held before a fetchMore, and the
\* categories whose statement was run, in order.
Call(op, raised, arg, could, queried) ==
    [op |-> op, raised |-> raised, arg |-> arg, could |-> could,
     queried |-> queried]

\* The raw patterns and the new_category arguments of Spec.
Patterns == { <<"a">>, <<"z">> }

Args(name, where, sort_by, sort_order, limit) ==
    [name |-> name, where |-> where, sort_by |-> sort_by,
     sort_order |-> sort_order, limit |-> limit]

CategoryArgs ==
    { Args("History", <<>>, "", "", NoLimit),
      Args("History", <<Col("starred")>>, "atime", "desc", 1),
      Args("History", <<Col("starred"), Or, Col("recent")>>, "atime", "asc", 0),
      Args("Empty", <<>>, "", "", NoLimit),
      Args("Missing", <<>>, "", "", NoLimit) }

\* Every index a caller can hold: the root, the category addresses (the
\* list never shrinks) and item addresses, those of rows that are gone
\* included.
MaxRows == Len(Tables.History)
Indexes ==
    {Invalid}
    \cup {createIndex(r, c, 0) : r \in 0..(Len(categories) - 1), c \in 0..2}
    \cup {createIndex(r, c, categories[i].id) :
              r \in {0, MaxRows - 1}, c \in {0, 2}, i \in 1..Len(categories)}

Init ==
    /\ columns_to_filter = <<0, 1>>
    /\ categories = <<>>
    /\ pattern = <<>>
    /\ last = Call("init", "none", 0, FALSE, <<>>)

\* A slip: the new category is filled with the model's current pattern.
initial_pattern_Current == CompilePattern(pattern)

\* __init__, line 60: self.set_pattern('%')
initial_pattern == <<"%">>

\* new_category: the probe of the table raises when the table is missing,
\* the first query (set_pattern('%')) when `fail`; the category is appended
\* only after its constructor returned.
new_category(a, fail) ==
    /\ IF a.name \notin DOMAIN Tables \/ fail
       THEN /\ last' = Call("new_category", "SqlException", 0, FALSE, <<>>)
            /\ UNCHANGED <<columns_to_filter, categories, pattern>>
       ELSE LET id == Len(categories) + 1
                cat == cat_set_pattern(
                           new_cat(id, a.name, a.where, a.sort_by,
                                   a.sort_order, a.limit), initial_pattern)
            IN  /\ categories' = Append(categories, cat)
                /\ last' = Call("new_category", "none", 0, FALSE, <<id>>)
                /\ UNCHANGED <<columns_to_filter, pattern>>

\* The loop of set_pattern, lines 250-251, from position i on: run_query
\* raises for the category at position failAt, before its setQuery.
RECURSIVE set_pattern_loop(_, _, _, _, _)
set_pattern_loop(cats, i, p, failAt, queried) ==
    IF i > Len(cats)
    THEN [cats |-> cats, raised |-> "none", queried |-> queried]
    ELSE IF i = failAt
         THEN [cats |-> cats, raised |-> "SqlException",
               queried |-> Append(queried, cats[i].id)]
         ELSE set_pattern_loop([cats EXCEPT ![i] = cat_set_pattern(cats[i], p)],
                               i + 1, p, failAt, Append(queried, cats[i].id))

\* A slip: the exception of one category is swallowed and the loop goes on.
RECURSIVE set_pattern_loop_goes_on(_, _, _, _, _)
set_pattern_loop_goes_on(cats, i, p, failAt, queried) ==
    IF i > Len(cats)
    THEN [cats |-> cats,
          raised |-> IF failAt = 0 THEN "none" ELSE "SqlException",
          queried |-> queried]
    ELSE set_pattern_loop_goes_on(
             IF i = failAt THEN cats
             ELSE [cats EXCEPT ![i] = cat_set_pattern(cats[i], p)],
             i + 1, p, failAt, Append(queried, cats[i].id))

broadcast_GoesOn(compiled, failAt) ==
    set_pattern_loop_goes_on(categories, 1, compiled, failAt, <<>>)

\* for cat in self._categories: cat.set_pattern(pattern)
broadcast(compiled, failAt) ==
    set_pattern_loop(categories, 1, compiled, failAt, <<>>)

set_pattern(p, failAt) ==
    LET r == broadcast(CompilePattern(p), failAt)
    IN  /\ pattern' = p
        /\ categories' = r.cats
        /\ last' = Call("set_pattern", r.raised, failAt, FALSE, r.queried)
        /\ UNCHANGED columns_to_filter

Kind(par) == IF ~par.valid THEN 0 ELSE IF par.ptr = 0 THEN 1 ELSE 2

\* A slip: the fetch is forwarded to the category of an item address too.
fetchMore_cat_OfItem(par) ==
    IF par.valid /\ par.ptr # 0 THEN categories[ListIndex(par.ptr) + 1]
    ELSE cat_from_idx(par)

fetchMore_cat(par) == cat_from_idx(par)

fetchMore(par) ==
    LET cat == fetchMore_cat(par)
    IN  /\ IF cat.id = -1
           THEN /\ last' = Call("fetchMore", "IndexError", Kind(par),
                                canFetchMore(par), <<>>)
                /\ UNCHANGED categories
           ELSE /\ last' = Call("fetchMore", "none", Kind(par),
                                canFetchMore(par), <<>>)
                /\ categories' =
                       IF cat.id # 0
                       THEN [categories EXCEPT
                                ![ListIndex(cat.id) + 1] = cat_fetchMore(cat)]
                       ELSE categories
        /\ UNCHANGED <<columns_to_filter, pattern>>

Next ==
    \/ /\ Len(categories) < MaxCats
       /\ \E a \in CategoryArgs, fail \in BOOLEAN : new_category(a, fail)
    \/ \E p \in Patterns, failAt \in 0..Len(categories) : set_pattern(p, failAt)
    \/ \E par \in Indexes : fetchMore(par)

Spec == Init /\ [][Next]_vars

\* The broadcast of set_pattern on its own, over longer lists of categories.
BroadcastArgs ==
    { Args("History", <<>>, "", "", NoLimit),
      Args("History", <<Col("starred")>>, "atime", "desc", 1) }

NextBroadcast ==
    \/ /\ Len(categories) < MaxBroadcast
       /\ \E a \in BroadcastArgs : new_category(a, FALSE)
    \/ \E p \in Patterns, failAt \in 0..Len(categories) : set_pattern(p, failAt)

SpecBroadcast == Init /\ [][NextBroadcast]_vars

\* The pattern compiler on its own: a model that was given a raw pattern of
\* up to MaxPatLen characters before its first category, then one category,
\* then the same raw pattern again.
CompileInputs == BoundedStrings(MaxPatLen) \cup {FooBar, FiftyOff}

InitCompile ==
    /\ columns_to_filter = <<0, 1>>
    /\ categories = <<>>
    /\ pattern \in CompileInputs
    /\ last = Call("set_pattern", "none", 0, FALSE, <<>>)

NextCompile ==
    \/ /\ categories = <<>>
       /\ new_category(Args("History", <<>>, "", "", NoLimit), FALSE)
    \/ set_pattern(pattern, 0)

SpecCompile == InitCompile /\ [][NextCompile]_vars

(***************************************************************************)
(* The properties.                                                         *)
(***************************************************************************)
CatAddr(i) == index(i, 0, Invalid)
Positions == 0..(Len(categories) - 1)

\* C1: for every category address P at column 0, every row below
\* rowCount(P) and every column 0..2, index(row, col, P) is a valid address
\* whose parent is P.
C1_ParentOfIndex ==
    \A i \in Positions :
        LET P == CatAddr(i)
        IN  /\ P = createIndex(i, 0, 0)
            /\ \A row \in 0..(rowCount(P) - 1), col \in 0..2 :
                   /\ index(row, col, P).valid
                   /\ parent(index(row, col, P)) = P

C1_Witness ==
    /\ Len(categories) = 2
    /\ rowCount(CatAddr(1)) >= 2
    /\ last.op = "fetchMore"

\* C5: a category address whose column is not 0 has no rows, and index
\* under it is invalid for every row and column, however many rows the
\* category holds.
C5_ColumnZeroOnly ==
    \A i \in Positions, c \in 1..2 :
        LET P == index(i, c, Invalid)
        IN  /\ P.valid /\ P.col = c
            /\ rowCount(P) = 0
            /\ \A row \in -1..MaxRows, col \in -1..3 : ~index(row, col, P).valid

C5_Witness ==
    /\ Len(categories) = 2
    /\ cat_rowCount(categories[2]) = MaxRows

\* C7: count() is the sum over the category positions i of
\* rowCount(index(i, 0)), also after a set_pattern that failed.
C7_CountIsSumOfRowCounts ==
    LET RECURSIVE total(_)
        total(i) == IF i < 0 THEN 0 ELSE rowCount(CatAddr(i)) + total(i - 1)
    IN  count = total(Len(categories) - 1)

C7_Witness ==
    /\ Len(categories) = 2
    /\ last.op = "set_pattern" /\ last.raised = "SqlException"
    /\ cat_rowCount(categories[1]) > 0
    /\ cat_rowCount(categories[2]) > 0
    /\ cat_rowCount(categories[2]) < Len(categories[2].result)

\* C8: first_item() is row 0, column 0 under the lowest category with rows,
\* last_item() the last row, column 0 under the highest category with rows,
\* and both are invalid exactly when no category has rows.
C8_FirstAndLastItem ==
    LET nonempty == {i \in Positions : rowCount(CatAddr(i)) > 0}
    IN  IF nonempty = {}
        THEN first_item = Invalid /\ last_item = Invalid
        ELSE LET lo == CHOOSE i \in nonempty : \A j \in nonempty : i <= j
                 hi == CHOOSE i \in nonempty : \A j \in nonempty : i >= j
             IN  /\ first_item.valid
                 /\ first_item.row = 0 /\ first_item.col = 0
                 /\ parent(first_item) = CatAddr(lo)
                 /\ last_item.valid
                 /\ last_item.row = rowCount(CatAddr(hi)) - 1
                 /\ last_item.col = 0
                 /\ parent(last_item) = CatAddr(hi)

C8_Witness ==
    /\ Len(categories) = 2
    /\ rowCount(CatAddr(0)) >= 2
    /\ rowCount(CatAddr(1)) = 0
    /\ categories[2].tablename = "History"

\* C9: a fetchMore(parent) made when canFetchMore(parent) is false does not
\* raise and changes neither the categories nor the stored pattern; and
\* canFetchMore is false on the root and on every item address.
C9_FetchMoreNoop ==
    /\ [][\A par \in Indexes :
            (~canFetchMore(par) /\ fetchMore(par))
                => /\ categories' = categories
                   /\ pattern' = pattern
                   /\ last'.raised = "none"]_vars
    /\ [](\A par \in Indexes : (~par.valid \/ par.ptr # 0) => ~canFetchMore(par))

C9_Witness ==
    /\ last.op = "fetchMore" /\ last.arg = 1 /\ ~last.could
    /\ last.raised = "none"
    /\ \E i \in 1..Len(categories) :
           categories[i].atEnd /\ cat_rowCount(categories[i]) = MaxRows

\* C10: a new_category that returns appends one category filled with '%'
\* and leaves the stored pattern and every other category as they were; the
\* new category keeps the result set of '%' until the next set_pattern.
C10_NewCategoryFrame ==
    /\ [][(last'.op = "new_category" /\ last'.raised = "none")
            => /\ Len(categories') = Len(categories) + 1
               /\ SubSeq(categories', 1, Len(categories)) = categories
               /\ pattern' = pattern
               /\ LET T == categories'[Len(categories')]
                  IN  /\ T.pattern = <<"%">>
                      /\ T.result = run_query(T.querystr, <<"%">>)
                      /\ \A j \in 1..Len(categories) : categories[j].id # T.id]_vars
    /\ [][last'.op # "set_pattern"
            => \A i \in 1..Len(categories) :
                   /\ categories'[i].pattern = categories[i].pattern
                   /\ categories'[i].result = categories[i].result]_vars

C10_Witness ==
    /\ last.op = "new_category" /\ last.raised = "none"
    /\ Len(categories) = 2
    /\ pattern # <<>>
    /\ categories[2].result
           # run_query(categories[2].querystr, CompilePattern(pattern))

\* C6: when the query of the category at position k fails during
\* set_pattern, the call raises, no later category is queried, the
\* categories before k hold the result set of the new pattern and those
\* after k are as they were.
C6_FailFast ==
    [][(last'.op = "set_pattern" /\ last'.arg >= 1)
         => LET k == last'.arg
                compiled == CompilePattern(pattern')
            IN  /\ last'.raised = "SqlException"
                /\ Len(categories') = Len(categories)
                /\ last'.queried = [i \in 1..k |-> categories[i].id]
                /\ \A i \in 1..(k - 1) :
                       /\ categories'[i].pattern = compiled
                       /\ categories'[i].result
                              = run_query(categories[i].querystr, compiled)
                /\ \A i \in (k + 1)..Len(categories) :
                       categories'[i] = categories[i]]_vars

C6_Witness ==
    /\ last.op = "set_pattern" /\ last.arg = 2
    /\ last.raised = "SqlException"
    /\ Len(categories) = 3
    /\ categories[1].pattern = CompilePattern(pattern)
    /\ categories[3].pattern # CompilePattern(pattern)
    /\ categories[3].pattern # <<"%">>

\* The static predicate a category was given, on its own.
StaticPredicate(cat) == SubSeq(cat.querystr.where, 3, Len(cat.querystr.where))

\* C4: after a set_pattern that returned, every row of every category's
\* result set matches the compiled pattern in a filtered field and satisfies
\* the category's static predicate, and a limit bounds the result set.
C4_RowsMatchPatternAndPredicate ==
    (last.op = "set_pattern" /\ last.raised = "none")
        => \A i \in 1..Len(categories) :
               LET cat == categories[i]
               IN  /\ \A n \in 1..Len(cat.result) :
                          /\ \E f \in 1..Len(cat.fields) :
                                 Like(cat.result[n][cat.fields[f]],
                                      CompilePattern(pattern))
                          /\ EvalOr(StaticPredicate(cat), cat.result[n], <<>>)
                   /\ cat.querystr.limit > 0
                          => Len(cat.result) <= cat.querystr.limit

Count(s, P(_)) == Cardinality({i \in 1..Len(s) : P(s[i])})

\* The maximal runs of spaces of a string.
SpaceRuns(s) ==
    Cardinality({i \in 1..Len(s) :
                    s[i] = " " /\ (i = 1 \/ s[i - 1] # " ")})

\* C2: in the pattern set_pattern(p) hands to the categories, LIKE ...
\* ESCAPE '\' reads no wildcard besides the two that wrap it and one per run
\* of spaces, and reads every % and _ of p as a literal: no _ is a wildcard,
\* the % wildcards are no more than 2 plus the runs of spaces, and the
\* literal % and _ are no fewer than those of p.
C2_InputWildcardsAreLiteral ==
    last.op = "set_pattern"
        => \A i \in 1..Len(categories) :
               LET t == LikeTokens(categories[i].pattern)
                   any(x) == x.kind = "any"
                   one(x) == x.kind = "one"
                   litpercent(x) == x.kind = "lit" /\ x.ch = "%"
                   litunderscore(x) == x.kind = "lit" /\ x.ch = "_"
                   percent(c) == c = "%"
                   underscore(c) == c = "_"
               IN  /\ Count(t, any) <= 2 + SpaceRuns(pattern)
                   /\ Count(t, one) = 0
                   /\ Count(t, litpercent) >= Count(pattern, percent)
                   /\ Count(t, litunderscore) >= Count(pattern, underscore)

\* The compiled pattern as the documentation describes it, in one pass:
\* % and _ get a backslash, a run of characters of W becomes one %, and the
\* whole is wrapped in %.
RECURSIVE ReferenceBody(_, _, _)
ReferenceBody(s, W, inRun) ==
    IF s = <<>> THEN <<>>
    ELSE IF Head(s) \in W
         THEN (IF inRun THEN <<>> ELSE <<"%">>) \o ReferenceBody(Tail(s), W, TRUE)
    ELSE IF Head(s) \in {"%", "_"}
         THEN <<"\\", Head(s)>> \o ReferenceBody(Tail(s), W, FALSE)
    ELSE <<Head(s)>> \o ReferenceBody(Tail(s), W, FALSE)

Reference(p, W) == <<"%">> \o ReferenceBody(p, W, FALSE) \o <<"%">>

\* C3 as stated: the runs are runs of whitespace, tabs and newlines
\* included.
C3_WhitespaceRuns ==
    last.op = "set_pattern"
        => \A i \in 1..Len(categories) :
               categories[i].pattern = Reference(pattern, {" ", "\t", "\n"})

\* C3: the pattern set_pattern(p) hands to the categories is p with % and _
\* escaped by a backslash, each maximal run of spaces (the space character
\* only) replaced by one %, wrapped in %; "" gives "%%", "foo bar" gives
\* "%foo%bar%" and "50% off" gives "%50\%%off%".
C3_SpaceRuns ==
    last.op = "set_pattern"
        => \A i \in 1..Len(categories) :
               LET c == categories[i].pattern
               IN  /\ c = Reference(pattern, {" "})
                   /\ pattern = <<>> => c = <<"%", "%">>
                   /\ pattern = FooBar
                          => c = <<"%", "f", "o", "o", "%", "b", "a", "r", "%">>
                   /\ pattern = FiftyOff
                          => c = <<"%", "5", "0", "\\", "%", "%", "o", "f", "f", "%">>

C3_Witness ==
    /\ last.op = "set_pattern"
    /\ Len(categories) = 1
    /\ pattern = <<"%", " ", " ", "a">>
    /\ categories[1].pattern = <<"%", "\\", "%", "%", "a", "%">>
====
